---- MODULE Spec2Model ----
(***************************************************************************)
(* The browser client of APO Quantum Logos (class APOQuantumLogos): the    *)
(* connectivity probe, the analysis orchestrator with its offline          *)
(* fallback, the free trial and the sustainability-metrics poller, as one  *)
(* state machine over the event loop.  Every action is one run-to-         *)
(* completion step of the single JavaScript thread: an event handler up to *)
(* its first await, or the continuation of an async function after the     *)
(* promise it awaits has settled.                                          *)
(***************************************************************************)
EXTENDS Integers, Sequences, FiniteSets, TLC

----------------------------------------------------------------------------
(* Bounds of the model.                                                    *)

\* analyze invocations (clicks and Ctrl+Enter) in one session, where the
\* orchestrator or the probe is examined in full
MaxCalls == 2
\* analyze invocations in one session of the whole client
SessionCalls == 1
\* free-trial submissions in one session
MaxTrials == 1
\* metrics loads in one session (the load of init plus the interval ticks)
MaxLoads == 2
\* lines read at the prompt in one session of the Node.js bridge
MaxCommands == 3

----------------------------------------------------------------------------
(* Inputs.                                                                 *)

\* A text is the sequence of its UTF-16 code units (String.charCodeAt).
\* "" , "hm" , "zz"
Texts == { <<>>, <<104, 109>>, <<122, 122>> }

\* the <select id="analysis-intention"> options (a sample of the five)
Intentions == { "healing", "wisdom" }

\* the requests the user makes: a text with an intention
Requests == { << <<>>, "healing" >>, << <<104, 109>>, "healing" >>,
              << <<122, 122>>, "wisdom" >> }

\* the value of the e-mail field: empty or filled in
Emails == { "", "a@b.c" }

\* HTTP status codes a response can carry
Statuses == { 200, 201, 404 }

\* How a fetch() promise settles: rejected (transport error), or fulfilled
\* with a response of some status.
FetchOutcomes == { [rejected |-> TRUE, status |-> 0] }
                 \cup { [rejected |-> FALSE, status |-> s] : s \in Statuses }

\* fault: every fulfilled response counts as ok (the status is not looked at)
ResponseOkLoose(r) == ~r.rejected

\* Response.ok: the status is in the range 200-299.
ResponseOk(r) == ~r.rejected /\ r.status >= 200 /\ r.status <= 299

\* What the body of a fulfilled response is, as response.json() sees it:
\*   "unparsable"  not JSON (an HTML page, an empty body): json() rejects
\*   "null"        the JSON value null
\*   "empty"       the JSON object {}
\*   "badtypes"    an object of the expected shape whose numbers are strings
\*   "shaped"      an object of the shape the endpoint documents
Bodies == { "unparsable", "null", "empty", "badtypes", "shaped" }

----------------------------------------------------------------------------
(* Numbers.  A JavaScript number is an IEEE-754 double; the integers the   *)
(* signature engine produces reach 2^56, beyond the integers of the model  *)
(* checker, so a number is kept as a sign and four 16-bit limbs, least     *)
(* significant first: value = d[1] + d[2]*2^16 + d[3]*2^32 + d[4]*2^48.    *)

Limb == 2^16

\* carry propagation over four limbs
Norm(d) ==
    LET e1 == d[2] + (d[1] \div Limb)
        e2 == d[3] + (e1 \div Limb)
        e3 == d[4] + (e2 \div Limb)
    IN  << (d[1] % Limb), (e1 % Limb), (e2 % Limb), e3 >>

\* d - 1 on the limbs above the first (a borrow out of the first limb)
Borrow(d) ==
    IF d[2] > 0 THEN << d[1], d[2] - 1, d[3], d[4] >>
    ELSE IF d[3] > 0 THEN << d[1], Limb - 1, d[3] - 1, d[4] >>
    ELSE << d[1], Limb - 1, Limb - 1, d[4] - 1 >>

\* Round an exact integer magnitude to the 53-bit significand of a double,
\* ties to even: from 2^53 the representable integers are 2, 4, 8 apart.
RoundToDouble(d) ==
    LET g  == IF d[4] >= 128 THEN 8 ELSE IF d[4] >= 64 THEN 4
              ELSE IF d[4] >= 32 THEN 2 ELSE 1
        r  == d[1] % g
        up == (2 * r > g) \/ (2 * r = g /\ ((d[1] \div g) % 2) = 1)
    IN  Norm(<< (d[1] - r) + (IF up THEN g ELSE 0), d[2], d[3], d[4] >>)

\* n + b for a small b >= 0: the exact sum, then rounded as a double
AddSmall(n, b) ==
    LET d == n.d
        big == d[2] > 0 \/ d[3] > 0 \/ d[4] > 0
    IN  IF ~n.neg
          THEN [neg |-> FALSE, d |-> RoundToDouble(Norm(<< d[1] + b, d[2], d[3], d[4] >>))]
        ELSE IF d[1] >= b
          THEN [neg |-> (big \/ d[1] > b), d |-> RoundToDouble(<< d[1] - b, d[2], d[3], d[4] >>)]
        ELSE IF big
          THEN [neg |-> TRUE, d |-> RoundToDouble(Borrow(<< d[1] + Limb - b, d[2], d[3], d[4] >>))]
        ELSE [neg |-> FALSE, d |-> << b - d[1], 0, 0, 0 >>]

\* ToUint32: the value modulo 2^32, as the pair << low 16 bits, high 16 bits >>
ToUint32(n) ==
    IF ~n.neg THEN << n.d[1], n.d[2] >>
    ELSE IF n.d[1] = 0 /\ n.d[2] = 0 THEN << 0, 0 >>
    ELSE IF n.d[1] = 0 THEN << 0, Limb - n.d[2] >>
    ELSE << Limb - n.d[1], (Limb - 1) - n.d[2] >>

\* The number an unsigned 32-bit pattern is when read as a signed int32
FromInt32Bits(u) ==
    IF u[2] < 2^15 THEN [neg |-> FALSE, d |-> << u[1], u[2], 0, 0 >>]
    ELSE [neg |-> TRUE,
          d |-> IF u[1] = 0 THEN << 0, Limb - u[2], 0, 0 >>
                ELSE << Limb - u[1], (Limb - 1) - u[2], 0, 0 >>]

\* a ^ b on n-bit naturals
RECURSIVE BitXor(_, _, _)
BitXor(a, b, n) ==
    IF n = 0 THEN 0
    ELSE (((a % 2) + (b % 2)) % 2) + 2 * BitXor(a \div 2, b \div 2, n - 1)

\* u mod m for a uint32 pair and a small modulus m
ModU32(u, m) == ((u[2] % m) * (Limb % m) + u[1]) % m

----------------------------------------------------------------------------
(* The signature engine (calculateQuantumSignature) and the local results. *)

\* 'ALPHA-PI-OMEGA-2024'.length, the salt (this.corporateSignature.length)
corporateSignatureLength == 19

\* 0x811c9dc5 = 2166136261 = 33052 * 2^16 + 40389, the FNV offset basis
FNVOffsetBasis == [neg |-> FALSE, d |-> << 40389, 33052, 0, 0 >>]

\* 0x01000193, the FNV prime
FNVPrime == 16777619

\* the switch on (character % 9)
FrequencyBonus(character) ==
    << 174, 285, 396, 417, 528, 639, 741, 852, 963 >>[(character % 9) + 1]

\* 'aeiou'.includes(String.fromCharCode(charCode).toLowerCase())
isVowel(charCode) ==
    charCode \in { 97, 101, 105, 111, 117, 65, 69, 73, 79, 85 }

\* quantumHash ^= character: both operands through ToInt32, an int32 result
XorCharacter(quantumHash, character) ==
    LET u == ToUint32(quantumHash)
    IN  FromInt32Bits(<< BitXor(u[1], character, 16), u[2] >>)

\* quantumHash *= 0x01000193: a multiplication of doubles, not of int32s;
\* the exact product of an int32 and the prime (below 2^56), rounded.
MultiplyPrime(quantumHash) ==
    LET x0 == quantumHash.d[1]
        x1 == quantumHash.d[2]
        pl == FNVPrime % Limb
        ph == FNVPrime \div Limb
    IN  [neg |-> quantumHash.neg /\ (x0 > 0 \/ x1 > 0),
         d   |-> RoundToDouble(Norm(<< x0 * pl, (x1 * pl) + (x0 * ph), x1 * ph, 0 >>))]

\* one iteration of the loop on the hash
HashStep(quantumHash, character) ==
    AddSmall(MultiplyPrime(XorCharacter(quantumHash, character)),
             FrequencyBonus(character))

\* the loop: the hash and the number of vowels met (consciousnessModulator
\* is 1.618 to that power)
RECURSIVE HashLoop(_, _, _)
HashLoop(text, position, acc) ==
    IF position > Len(text) THEN acc
    ELSE HashLoop(text, position + 1,
                  [quantumHash |-> HashStep(acc.quantumHash, text[position]),
                   vowels |-> acc.vowels + (IF isVowel(text[position]) THEN 1 ELSE 0)])

\* quantumHash * consciousnessModulator where the text holds no vowel: the
\* modulator is exactly 1 and the product is the hash itself.
ScaleByModulator(quantumHash, vowels) ==
    CASE vowels = 0 -> quantumHash

\* With a vowel in the text the modulator is a power of 1.618 and the
\* product is no integer.  Such a double is kept as a sign, the bits of its
\* significand (least significant first) and a binary exponent:
\* value = (-1)^neg * (bits[1] + 2*bits[2] + 4*bits[3] + ...) * 2^e.
\* No text of a few characters brings the modulator to Infinity.

\* bit i of a bit sequence, 0 outside it
BitAt(bits, i) == IF i \in 1..Len(bits) THEN bits[i] ELSE 0

\* the bits of a sequence of limbs of w bits each
BitsOf(limbs, w) ==
    [i \in 1..(w * Len(limbs)) |->
        (limbs[((i - 1) \div w) + 1] \div (2^((i - 1) % w))) % 2] \o << >>

\* the natural that bits lo .. lo+n-1 write
RECURSIVE BitsValue(_, _, _)
BitsValue(bits, lo, n) ==
    IF n = 0 THEN 0 ELSE BitAt(bits, lo) + (2 * BitsValue(bits, lo + 1, n - 1))

\* the limbs of w bits each of a bit sequence
LimbsOf(bits, w) ==
    [k \in 1..((Len(bits) + w - 1) \div w) |-> BitsValue(bits, (w * (k - 1)) + 1, w)]
    \o << >>

\* the position of the highest set bit, 0 for zero
BitLen(bits) ==
    LET ones == { i \in 1..Len(bits) : bits[i] = 1 }
    IN  IF ones = {} THEN 0 ELSE CHOOSE i \in ones : \A j \in ones : j <= i

\* bits * 2^k, truncated to an integer where k < 0
ShiftBits(bits, k) ==
    [i \in 1..(IF Len(bits) + k > 0 THEN Len(bits) + k ELSE 0) |-> BitAt(bits, i - k)]
    \o << >>

\* limb i of a sequence of limbs, 0 outside it
LimbAt(limbs, i) == IF i \in 1..Len(limbs) THEN limbs[i] ELSE 0

\* x + y on sequences of 12-bit limbs, from limb i on, with a carry in
RECURSIVE AddLimbs(_, _, _, _)
AddLimbs(x, y, i, carry) ==
    IF i > Len(x) /\ i > Len(y) THEN << carry >>
    ELSE LET s == LimbAt(x, i) + LimbAt(y, i) + carry
         IN  << s % 4096 >> \o AddLimbs(x, y, i + 1, s \div 4096)

\* x - y on sequences of 12-bit limbs, from limb i on, with a borrow in,
\* for x >= y
RECURSIVE SubLimbs(_, _, _, _)
SubLimbs(x, y, i, borrow) ==
    IF i > Len(x) THEN << >>
    ELSE LET s == (4096 + LimbAt(x, i)) - (LimbAt(y, i) + borrow)
         IN  << s % 4096 >> \o SubLimbs(x, y, i + 1, IF s < 4096 THEN 1 ELSE 0)

\* a + b on naturals given by their bits
AddBits(a, b) == BitsOf(AddLimbs(LimbsOf(a, 12), LimbsOf(b, 12), 1, 0), 12)

\* a - b on naturals given by their bits, for a >= b
SubBits(a, b) == BitsOf(SubLimbs(LimbsOf(a, 12), LimbsOf(b, 12), 1, 0), 12)

\* a < b
LessBits(a, b) ==
    LET n == IF Len(a) > Len(b) THEN Len(a) ELSE Len(b)
        differ == { i \in 1..n : BitAt(a, i) # BitAt(b, i) }
    IN  /\ differ # {}
        /\ BitAt(b, CHOOSE i \in differ : \A j \in differ : j <= i) = 1

\* column k of the long multiplication of two sequences of 12-bit limbs,
\* from row i on
RECURSIVE Column(_, _, _, _)
Column(a, b, k, i) ==
    IF i > k \/ i > Len(a) THEN 0
    ELSE (IF k + 1 - i <= Len(b) THEN a[i] * b[k + 1 - i] ELSE 0)
         + Column(a, b, k, i + 1)

\* carry propagation over the columns, from column i on
RECURSIVE CarryColumns(_, _, _)
CarryColumns(columns, i, carry) ==
    IF i > Len(columns) THEN << >>
    ELSE << (columns[i] + carry) % 4096 >>
         \o CarryColumns(columns, i + 1, (columns[i] + carry) \div 4096)

\* the exact product of two naturals given by their bits
MulBits(a, b) ==
    LET x == LimbsOf(a, 12)
        y == LimbsOf(b, 12)
        columns == [k \in 1..(Len(x) + Len(y)) |-> Column(x, y, k, 1)] \o << >>
    IN  BitsOf(CarryColumns(columns, 1, 0), 12)

\* the result of an arithmetic operation, rounded to the 53 bits of a
\* double's significand, ties to even
RoundSignificand(x) ==
    LET s == BitLen(x.bits) - 53
    IN  IF s <= 0 THEN x
        ELSE LET q == ShiftBits(x.bits, 0 - s)
                 up == /\ x.bits[s] = 1
                       /\ (q[1] = 1 \/ \E i \in 1..(s - 1) : x.bits[i] = 1)
             IN  [neg |-> x.neg,
                  bits |-> IF up THEN AddBits(q, << 1 >>) ELSE q,
                  e |-> x.e + s]

\* x * y on doubles
MulDouble(x, y) ==
    RoundSignificand([neg |-> x.neg # y.neg, bits |-> MulBits(x.bits, y.bits),
                      e |-> x.e + y.e])

\* x + b on doubles, for a small natural b
AddDouble(x, b) ==
    LET lo == IF x.e < 0 THEN x.e ELSE 0
        m == ShiftBits(x.bits, x.e - lo)
        n == ShiftBits(BitsOf(<< b >>, 12), 0 - lo)
    IN  RoundSignificand(
            IF ~x.neg THEN [neg |-> FALSE, bits |-> AddBits(m, n), e |-> lo]
            ELSE IF LessBits(m, n)
              THEN [neg |-> FALSE, bits |-> SubBits(n, m), e |-> lo]
            ELSE [neg |-> TRUE, bits |-> SubBits(m, n), e |-> lo])

\* x >>> 0 on a double: truncated to an integer, modulo 2^32
DoubleToUint32(x) ==
    LET whole == ShiftBits(x.bits, x.e)
    IN  ToUint32([neg |-> x.neg,
                  d |-> << BitsValue(whole, 1, 16), BitsValue(whole, 17, 16), 0, 0 >>])

\* an integer of four limbs as a double
ToDouble(n) == [neg |-> n.neg, bits |-> BitsOf(n.d, 16), e |-> 0]

\* 1.618 as a double: 0x19E353F7CED917 * 2^-52
GoldenRatio ==
    [neg |-> FALSE, bits |-> BitsOf(<< 55575, 63438, 58195, 25 >>, 16), e |-> 0 - 52]

\* consciousnessModulator after `consciousnessModulator *= 1.618` has run
\* once for each vowel
RECURSIVE consciousnessModulator(_)
consciousnessModulator(vowels) ==
    IF vowels = 0 THEN [neg |-> FALSE, bits |-> << 1 >>, e |-> 0]
    ELSE MulDouble(consciousnessModulator(vowels - 1), GoldenRatio)

\* (quantumHash * consciousnessModulator + apoSignature) >>> 0 for a text
\* with vowels
ScaledSignature(quantumHash, vowels) ==
    DoubleToUint32(AddDouble(MulDouble(ToDouble(quantumHash),
                                       consciousnessModulator(vowels)),
                             corporateSignatureLength))

\* fault: `| 0` in place of `>>> 0`, and no Math.abs: the result read as a
\* signed int32, the high half negative from 2^31 on
calculateQuantumSignatureSigned(text) ==
    IF text = << >> THEN << 0, 0 >>
    ELSE LET end == HashLoop(text, 1, [quantumHash |-> FNVOffsetBasis, vowels |-> 0])
             u == IF end.vowels = 0
                    THEN ToUint32(AddSmall(ScaleByModulator(end.quantumHash, end.vowels),
                                           corporateSignatureLength))
                  ELSE ScaledSignature(end.quantumHash, end.vowels)
         IN  IF u[2] < 2^15 THEN u ELSE << u[1], u[2] - Limb >>

\* Math.abs((quantumHash * consciousnessModulator + apoSignature) >>> 0),
\* a uint32 as the pair << low 16 bits, high 16 bits >>; 0 for the empty text
calculateQuantumSignature(text) ==
    IF text = << >> THEN << 0, 0 >>
    ELSE LET end == HashLoop(text, 1, [quantumHash |-> FNVOffsetBasis, vowels |-> 0])
         IN  IF end.vowels = 0
               THEN ToUint32(AddSmall(ScaleByModulator(end.quantumHash, end.vowels),
                                      corporateSignatureLength))
             ELSE ScaledSignature(end.quantumHash, end.vowels)

\* fault: the upper threshold taken inclusively
HealingGradeInclusive(frequency) ==
    IF frequency >= 500 THEN "A+" ELSE IF frequency > 450 THEN "A" ELSE "B+"

\* frequency > 500 ? 'A+' : frequency > 450 ? 'A' : 'B+'
HealingGrade(frequency) ==
    IF frequency > 500 THEN "A+" ELSE IF frequency > 450 THEN "A" ELSE "B+"

\* fault: regenerative_score is consciousness itself, not 0.8 of it
offlineAnalysisUnscaled(text, intention) ==
    LET signature == calculateQuantumSignature(text)
        consciousness == ModU32(signature, 100)
        frequency == 400 + ModU32(signature, 200)
    IN  [healing_analysis |->
            [consciousness_frequency |-> frequency,
             healing_resonance |-> consciousness * 10,
             regenerative_score |-> consciousness * 10,
             trees_planted_equivalent |-> 1,
             healing_grade |-> HealingGrade(frequency),
             intention_amplification |-> intention],
         sustainability_impact |-> "solar",
         analysis_mode |-> "offline",
         apo_signature |-> "ALPHA-PI-OMEGA-2024"]

\* offlineAnalysis(text, intention).  consciousness = (signature % 100) / 100
\* is kept in hundredths: healing_resonance (consciousness * 1000) is ten
\* times it and regenerative_score (consciousness * 0.8), in thousandths,
\* eight times it; trees_planted_equivalent 0.1 is kept in tenths.
offlineAnalysis(text, intention) ==
    LET signature == calculateQuantumSignature(text)
        consciousness == ModU32(signature, 100)
        frequency == 400 + ModU32(signature, 200)
    IN  [healing_analysis |->
            [consciousness_frequency |-> frequency,
             healing_resonance |-> consciousness * 10,
             regenerative_score |-> consciousness * 8,
             trees_planted_equivalent |-> 1,
             healing_grade |-> HealingGrade(frequency),
             intention_amplification |-> intention],
         sustainability_impact |-> "solar",
         analysis_mode |-> "offline",
         apo_signature |-> "ALPHA-PI-OMEGA-2024"]

\* fault: the trial derives its frequency from the signature modulo 100
offlineTrialAnalysisNarrow(email, text) ==
    LET signature == calculateQuantumSignature(text)
    IN  [consciousness_signature |-> signature,
         healing_potential |-> ModU32(signature, 100),
         healing_frequency |-> 400 + ModU32(signature, 100),
         regenerative_score |-> ModU32(signature, 100) * 8,
         analysis_type |-> "offline_trial",
         apo_signature |-> "ALPHA-PI-OMEGA-2024"]

\* offlineTrialAnalysis(email, text); the e-mail address is not used
offlineTrialAnalysis(email, text) ==
    LET signature == calculateQuantumSignature(text)
    IN  [consciousness_signature |-> signature,
         healing_potential |-> ModU32(signature, 100),
         healing_frequency |-> 400 + ModU32(signature, 200),
         regenerative_score |-> ModU32(signature, 100) * 8,
         analysis_type |-> "offline_trial",
         apo_signature |-> "ALPHA-PI-OMEGA-2024"]

----------------------------------------------------------------------------
(* State.                                                                  *)

VARIABLES
    initPc,               \* where init() stands: "new", "probe", "metrics", "rejected"
    isInitialized,        \* this.isInitialized
    isQuantumFieldActive, \* this.isQuantumFieldActive
    uiReady,              \* setupUI() has run: this.elements bound, listeners attached
    statusIndicator,      \* the #api-status element: "absent", "connecting", "connected", "offline"
    probe,                \* checkAPIConnection(): where it stands, the GET / requests
                          \* issued so far, and what the answer was
    isOfflineMode,        \* this.isOfflineMode (FALSE while it is still undefined)
    calls,                \* the invocations of analyzeConsciousness(), in order of invocation
    analyzeBtnDisabled,   \* this.elements.analyzeBtn.disabled
    analysisHistory,      \* this.analysisHistory
    trials,               \* the invocations of handleFreeTrial(), in order of invocation
    trialResults,         \* the .trial-results element: << >>, or << the result it shows >>
    loads,                \* the invocations of loadSustainabilityMetrics(), in order
    sustainabilityMetrics,  \* this.sustainabilityMetrics
    sustainabilityDisplay,  \* what #sustainability-metrics shows: << >>, or << a snapshot >>
    timerOn,              \* startRealTimeUpdates() has started the 30 s interval
    location,             \* window.location: its hostname and protocol
    apiBaseUrl,           \* this.apiBaseUrl
    healingFrequencyDisplay,  \* the #healing-frequency element: << >> while it is
                          \* absent, or << what its text shows >>
    engine,               \* the last call another script made on the exported
                          \* instance (window.apoQuantumLogos): << >>, or << the
                          \* text and what the engine's methods returned >>
    cli                   \* the Node.js bridge (node.js) run as an interactive
                          \* session: where it stands, the prompts issued, the
                          \* analysis it awaits and what it has printed

vars == << initPc, isInitialized, isQuantumFieldActive, uiReady, statusIndicator,
           probe, isOfflineMode, calls, analyzeBtnDisabled, analysisHistory,
           trials, trialResults, loads, sustainabilityMetrics,
           sustainabilityDisplay, timerOn, location, apiBaseUrl,
           healingFrequencyDisplay, engine, cli >>

initVars    == << initPc, isInitialized, isQuantumFieldActive, timerOn >>
analyzeVars == << calls, analyzeBtnDisabled, analysisHistory >>
trialVars   == << trials, trialResults >>
metricsVars == << loads, sustainabilityMetrics, sustainabilityDisplay >>
scriptVars  == << location, engine, cli >>
pageVars    == << apiBaseUrl, healingFrequencyDisplay, scriptVars >>

\* the JSON object {}
EmptyObject == [f \in {} |-> 0]

\* a request that has not been answered
NoResponse == [rejected |-> FALSE, status |-> 0]

\* A hostname is the sequence of the pieces it is written with, so that
\* `===` is equality and includes(piece) is membership: "www." followed by
\* "alphapiomega.com" is www.alphapiomega.com.
Hostnames ==
    { << "www.", "alphapiomega.com" >>, << "alphapiomega.com" >>,
      << "app.", "alphapiomega.com" >>,
      << "demo.", "netlify.app" >>, << "netlify.com" >>,
      << "localhost", ".", "netlify.app" >>,
      << "www.", "alphapiomega.com", ".", "netlify.app" >>,
      << "netlify.app", ".", "example.org" >>,
      << "localhost" >>, << "127.0.0.1" >>,
      << "example.org" >>, << >> }

\* window.location.protocol
Protocols == { "http:", "https:" }

Locations == [hostname : Hostnames, protocol : Protocols]

\* the page served by the local development server
LocalPage == [hostname |-> << "localhost" >>, protocol |-> "http:"]

\* this.apiBaseUrl before the constructor assigns it
NoUrl == [protocol |-> "", hostname |-> << >>, port |-> "", path |-> ""]

\* the state before the script's `new APOQuantumLogos()` runs, in a page at
\* `place`; the fields are those the constructor assigns (isOfflineMode is
\* not among them)
InitAt(place) ==
    /\ initPc = "new"
    /\ isInitialized = FALSE
    /\ isQuantumFieldActive = FALSE
    /\ uiReady = FALSE
    /\ statusIndicator = "absent"
    /\ probe = [pc |-> "idle", fetches |-> 0, response |-> NoResponse, body |-> "none"]
    /\ isOfflineMode = FALSE
    /\ calls = << >>
    /\ analyzeBtnDisabled = FALSE
    /\ analysisHistory = << >>
    /\ trials = << >>
    /\ trialResults = << >>
    /\ loads = << >>
    /\ sustainabilityMetrics = EmptyObject
    /\ sustainabilityDisplay = << >>
    /\ timerOn = FALSE
    /\ location = place
    /\ apiBaseUrl = NoUrl
    /\ healingFrequencyDisplay = << >>
    /\ engine = << >>
    /\ cli = [pc |-> "off", prompts |-> 0, running |-> << >>, children |-> 0,
              isRunning |-> FALSE, output |-> << >>]

Init == InitAt(LocalPage)

\* the page may be served from anywhere
InitAnywhere == \E place \in Locations : InitAt(place)

----------------------------------------------------------------------------
(* Construction and the connectivity probe.                                *)

\* fault: the loopback rule is tried before the Netlify rule, and a name
\* that starts with localhost counts as the loopback
detectEnvironmentLoopbackFirst(hostname, protocol) ==
    IF hostname = << "www.", "alphapiomega.com" >> \/ hostname = << "alphapiomega.com" >>
      THEN [protocol |-> protocol, hostname |-> << "www.", "alphapiomega.com" >>,
            port |-> "", path |-> "/api"]
    ELSE IF (hostname # << >> /\ hostname[1] = "localhost") \/ hostname = << "127.0.0.1" >>
      THEN [protocol |-> "http:", hostname |-> << "localhost" >>,
            port |-> "5000", path |-> ""]
    ELSE IF \E i \in DOMAIN hostname : hostname[i] \in { "netlify.app", "netlify.com" }
      THEN [protocol |-> protocol, hostname |-> hostname,
            port |-> "", path |-> "/.netlify/functions"]
    ELSE [protocol |-> "https:", hostname |-> << "www.", "alphapiomega.com" >>,
          port |-> "", path |-> "/api"]

\* fault: the default keeps the scheme of the page
detectEnvironmentDefaultByScheme(hostname, protocol) ==
    IF hostname = << "www.", "alphapiomega.com" >> \/ hostname = << "alphapiomega.com" >>
      THEN [protocol |-> protocol, hostname |-> << "www.", "alphapiomega.com" >>,
            port |-> "", path |-> "/api"]
    ELSE IF \E i \in DOMAIN hostname : hostname[i] \in { "netlify.app", "netlify.com" }
      THEN [protocol |-> protocol, hostname |-> hostname,
            port |-> "", path |-> "/.netlify/functions"]
    ELSE IF hostname = << "localhost" >> \/ hostname = << "127.0.0.1" >>
      THEN [protocol |-> "http:", hostname |-> << "localhost" >>,
            port |-> "5000", path |-> ""]
    ELSE [protocol |-> protocol, hostname |-> << "www.", "alphapiomega.com" >>,
          port |-> "", path |-> "/api"]

\* detectEnvironment(): the URL as its protocol, hostname, port and path
detectEnvironment(hostname, protocol) ==
    IF hostname = << "www.", "alphapiomega.com" >> \/ hostname = << "alphapiomega.com" >>
      THEN [protocol |-> protocol, hostname |-> << "www.", "alphapiomega.com" >>,
            port |-> "", path |-> "/api"]
    ELSE IF \E i \in DOMAIN hostname : hostname[i] \in { "netlify.app", "netlify.com" }
      THEN [protocol |-> protocol, hostname |-> hostname,
            port |-> "", path |-> "/.netlify/functions"]
    ELSE IF hostname = << "localhost" >> \/ hostname = << "127.0.0.1" >>
      THEN [protocol |-> "http:", hostname |-> << "localhost" >>,
            port |-> "5000", path |-> ""]
    ELSE [protocol |-> "https:", hostname |-> << "www.", "alphapiomega.com" >>,
          port |-> "", path |-> "/api"]

\* createMainInterface(): the #healing-frequency element starts at "528 Hz"
createMainInterface == << [hz |-> 528, fixed |-> FALSE] >>

\* updateStatus(status, message): writes only when #api-status is bound
updateStatus(status) == IF uiReady THEN status ELSE statusIndicator

\* fault: with the document still loading, init() waits for DOMContentLoaded
\* and never comes to the probe
ConstructProbeLater(domReady) ==
    /\ initPc = "new"
    /\ initPc' = "probe"
    /\ uiReady' = domReady
    /\ statusIndicator' = IF domReady THEN "connecting" ELSE "absent"
    /\ healingFrequencyDisplay' = IF domReady THEN createMainInterface ELSE << >>
    /\ apiBaseUrl' = detectEnvironment(location.hostname, location.protocol)
    /\ probe' = IF domReady THEN [probe EXCEPT !.pc = "fetch", !.fetches = @ + 1]
                ELSE probe
    /\ UNCHANGED << scriptVars,
                    isInitialized, isQuantumFieldActive, timerOn, isOfflineMode,
                    analyzeVars, trialVars, metricsVars >>

\* constructor() and init() up to its first await: setupUI() at once when
\* the document is ready, else on DOMContentLoaded; then checkAPIConnection()
\* issues its fetch.
Construct(domReady) ==
    /\ initPc = "new"
    /\ initPc' = "probe"
    /\ uiReady' = domReady
    /\ statusIndicator' = IF domReady THEN "connecting" ELSE "absent"
    /\ healingFrequencyDisplay' = IF domReady THEN createMainInterface ELSE << >>
    /\ apiBaseUrl' = detectEnvironment(location.hostname, location.protocol)
    /\ probe' = [probe EXCEPT !.pc = "fetch", !.fetches = @ + 1]
    /\ UNCHANGED << scriptVars,
                    isInitialized, isQuantumFieldActive, timerOn, isOfflineMode,
                    analyzeVars, trialVars, metricsVars >>

\* the DOMContentLoaded listener of init(): setupUI()
DOMContentLoaded ==
    /\ initPc # "new"
    /\ ~uiReady
    /\ uiReady' = TRUE
    /\ statusIndicator' = "connecting"
    /\ healingFrequencyDisplay' = createMainInterface
    /\ UNCHANGED << apiBaseUrl, scriptVars,
                    initVars, probe, isOfflineMode, analyzeVars, trialVars, metricsVars >>

\* a new invocation of loadSustainabilityMetrics(), awaiting its fetch
NewLoad == [pc |-> "fetch"]

\* init() after `await this.checkAPIConnection()`: loadSustainabilityMetrics()
\* issues its fetch
InitAfterProbe ==
    /\ initPc' = "metrics"
    /\ loads' = Append(loads, NewLoad)
    /\ UNCHANGED << isInitialized, isQuantumFieldActive, timerOn,
                    sustainabilityMetrics, sustainabilityDisplay >>

\* fault: the catch block shows the status and leaves the flag alone
checkAPIConnectionCatchSilent ==
    /\ statusIndicator' = updateStatus("offline")
    /\ UNCHANGED isOfflineMode

\* the catch block of checkAPIConnection()
checkAPIConnectionCatch ==
    /\ statusIndicator' = updateStatus("offline")
    /\ isOfflineMode' = TRUE

\* fault: a successful probe clears the flag
checkAPIConnectionOkResets ==
    /\ statusIndicator' = updateStatus("connected")
    /\ isOfflineMode' = FALSE

\* the success branch of checkAPIConnection()
checkAPIConnectionOk ==
    /\ statusIndicator' = updateStatus("connected")
    /\ UNCHANGED isOfflineMode

\* the probe's fetch settles with a response that is not ok, or rejects
ProbeFetchFails(r) ==
    /\ probe.pc = "fetch"
    /\ ~ResponseOk(r)
    /\ probe' = [probe EXCEPT !.pc = "done", !.response = r]
    /\ checkAPIConnectionCatch
    /\ InitAfterProbe
    /\ UNCHANGED << pageVars,
                    uiReady, analyzeVars, trialVars >>

\* the probe's fetch settles with an ok response: await response.json()
ProbeFetchOk(r) ==
    /\ probe.pc = "fetch"
    /\ ResponseOk(r)
    /\ probe' = [probe EXCEPT !.pc = "json", !.response = r]
    /\ UNCHANGED << pageVars,
                    initVars, uiReady, statusIndicator, isOfflineMode,
                    analyzeVars, trialVars, metricsVars >>

\* response.json() rejects, or yields null and `data.service` throws
ProbeBodyFails(b) == b \in { "unparsable", "null" }

\* the probe's response.json() settles
ProbeJsonSettles(b) ==
    /\ probe.pc = "json"
    /\ probe' = [probe EXCEPT !.pc = "done", !.body = b]
    /\ IF ProbeBodyFails(b) THEN checkAPIConnectionCatch ELSE checkAPIConnectionOk
    /\ InitAfterProbe
    /\ UNCHANGED << pageVars,
                    uiReady, analyzeVars, trialVars >>

----------------------------------------------------------------------------
(* The analysis orchestrator (analyzeConsciousness).                       *)

\* how the user starts an analysis: the button, or Ctrl+Enter in the text
Triggers == { "click", "ctrlEnter" }

\* a body of the shape POST /healing-analysis documents (sample values, in
\* the units of offlineAnalysis)
RemoteAnalysis ==
    [healing_analysis |->
        [consciousness_frequency |-> 528,
         healing_resonance |-> 850,
         regenerative_score |-> 900,
         trees_planted_equivalent |-> 5,
         healing_grade |-> "A+"],
     sustainability_impact |-> "solar",
     analysis_mode |-> "online"]

\* result = await response.json() for the bodies that parse to an object
ParseAnalysis(b) == IF b = "shaped" THEN RemoteAnalysis ELSE EmptyObject

\* displayAnalysisResults(result) throws a TypeError: result is null
\* (result.healing_analysis), or consciousness_frequency is a string
\* (toFixed is not a function)
DisplayThrows(b) == b \in { "null", "badtypes" }

\* a result that was never assigned
NoResult == EmptyObject

\* the record of an invocation that has just read its inputs
NewCall(text, intention) ==
    [text |-> text, intention |-> intention, pc |-> "done",
     remoteIssued |-> FALSE, response |-> NoResponse, body |-> "none",
     outcome |-> "invalid", result |-> NoResult, notice |-> FALSE]

\* fault: the guard on the text is missing
TextMissingNever(text) == FALSE

\* `if (!text)`: the text is empty (or the textarea is not there)
TextMissing(text) == text = << >>

\* fault: the remote call is attempted whatever the flag says
RemoteAttemptedAlways(offline) == TRUE

\* `if (!this.isOfflineMode)`: whether the remote call is attempted
RemoteAttempted(offline) == ~offline

\* updateConsciousnessDisplay(result): `${frequency.toFixed(1)} Hz` in the
\* #healing-frequency element, 528 where the result holds no frequency
updateConsciousnessDisplay(result) ==
    << [hz |-> IF "healing_analysis" \in DOMAIN result
                 THEN result.healing_analysis.consciousness_frequency ELSE 528,
        fixed |-> TRUE] >>

\* fault: the history keeps the latest result only
FinishAnalysisOverwrite(c, base, result, throws, offline) ==
    /\ calls' = [base EXCEPT ![c].pc = "done",
                             ![c].outcome = IF throws THEN "error" ELSE "result",
                             ![c].result = IF throws THEN NoResult ELSE result,
                             ![c].notice = (~throws /\ offline)]
    /\ healingFrequencyDisplay' = IF throws THEN healingFrequencyDisplay
                                  ELSE updateConsciousnessDisplay(result)
    /\ analysisHistory' = IF throws THEN analysisHistory ELSE << result >>
    /\ analyzeBtnDisabled' = FALSE

\* fault: the history is kept in the order the calls were issued
FinishAnalysisInRequestOrder(c, base, result, throws, offline) ==
    LET ended == [base EXCEPT ![c].pc = "done",
                              ![c].outcome = IF throws THEN "error" ELSE "result",
                              ![c].result = IF throws THEN NoResult ELSE result,
                              ![c].notice = (~throws /\ offline)]
        ids == { k \in 1..Len(ended) : ended[k].outcome = "result" }
    IN  /\ calls' = ended
        /\ healingFrequencyDisplay' = IF throws THEN healingFrequencyDisplay
                                      ELSE updateConsciousnessDisplay(result)
        /\ analysisHistory' =
              [i \in 1..Cardinality(ids) |->
                  ended[CHOOSE k \in ids : Cardinality({ j \in ids : j < k }) = i - 1].result]
        /\ analyzeBtnDisabled' = FALSE

\* from displayAnalysisResults(result) to the finally block, for call c of
\* `base`: a throw is caught by the outer catch (showError); otherwise the
\* result is pushed and the notice shown if isOfflineMode (`offline`) is set
FinishAnalysis(c, base, result, throws, offline) ==
    /\ calls' = [base EXCEPT ![c].pc = "done",
                             ![c].outcome = IF throws THEN "error" ELSE "result",
                             ![c].result = IF throws THEN NoResult ELSE result,
                             ![c].notice = (~throws /\ offline)]
    /\ healingFrequencyDisplay' = IF throws THEN healingFrequencyDisplay
                                  ELSE updateConsciousnessDisplay(result)
    /\ analysisHistory' = IF throws THEN analysisHistory
                          ELSE Append(analysisHistory, result)
    /\ analyzeBtnDisabled' = FALSE

\* fault: the inner catch block sets the flag and throws again, so that the
\* outer catch reports the failure
analyzeCatchRethrow(c, base) ==
    /\ isOfflineMode' = TRUE
    /\ FinishAnalysis(c, base, NoResult, TRUE, TRUE)

\* the inner catch block: the flag is set and the result computed locally
analyzeCatch(c, base) ==
    /\ isOfflineMode' = TRUE
    /\ FinishAnalysis(c, base,
                      offlineAnalysis(base[c].text, base[c].intention), FALSE, TRUE)

\* analyzeConsciousness() up to its first await, or to its end
analyzeConsciousness(text, intention, trigger) ==
    /\ uiReady
    /\ trigger = "click" => ~analyzeBtnDisabled
    /\ LET c == Len(calls) + 1
           started == Append(calls, NewCall(text, intention))
       IN  IF TextMissing(text)
             THEN /\ calls' = started
                  /\ UNCHANGED << analyzeBtnDisabled, analysisHistory,
                                  healingFrequencyDisplay >>
           ELSE IF RemoteAttempted(isOfflineMode)
             THEN /\ calls' = [started EXCEPT ![c].pc = "fetch",
                                              ![c].remoteIssued = TRUE,
                                              ![c].outcome = "pending"]
                  /\ analyzeBtnDisabled' = TRUE
                  /\ UNCHANGED << analysisHistory, healingFrequencyDisplay >>
           ELSE FinishAnalysis(c, started, offlineAnalysis(text, intention),
                               FALSE, isOfflineMode)
    /\ UNCHANGED << apiBaseUrl, scriptVars,
                    initVars, uiReady, statusIndicator, probe, isOfflineMode,
                    trialVars, metricsVars >>

\* the fetch of call c settles
AnalyzeFetchSettles(c, r) ==
    /\ c \in 1..Len(calls)
    /\ calls[c].pc = "fetch"
    /\ LET base == [calls EXCEPT ![c].response = r]
       IN  IF ResponseOk(r)
             THEN /\ calls' = [base EXCEPT ![c].pc = "json"]
                  /\ UNCHANGED << analyzeBtnDisabled, analysisHistory, isOfflineMode,
                                  healingFrequencyDisplay >>
             ELSE analyzeCatch(c, base)
    /\ UNCHANGED << apiBaseUrl, scriptVars,
                    initVars, uiReady, statusIndicator, probe, trialVars, metricsVars >>

\* response.json() of call c settles
AnalyzeJsonSettles(c, b) ==
    /\ c \in 1..Len(calls)
    /\ calls[c].pc = "json"
    /\ LET base == [calls EXCEPT ![c].body = b]
       IN  IF b = "unparsable"
             THEN analyzeCatch(c, base)
             ELSE /\ FinishAnalysis(c, base, ParseAnalysis(b), DisplayThrows(b),
                                    isOfflineMode)
                  /\ UNCHANGED isOfflineMode
    /\ UNCHANGED << apiBaseUrl, scriptVars,
                    initVars, uiReady, statusIndicator, probe, trialVars, metricsVars >>

----------------------------------------------------------------------------
(* The free trial (handleFreeTrial).                                       *)

\* a body of the shape the free-trial endpoint answers with (sample values)
RemoteTrial ==
    [consciousness_signature |-> << 1, 0 >>,
     healing_potential |-> 50,
     healing_frequency |-> 528,
     regenerative_score |-> 400,
     analysis_type |-> "trial"]

ParseTrial(b) == IF b = "shaped" THEN RemoteTrial ELSE EmptyObject

NewTrial(email, text) ==
    [text |-> text, pc |-> "done", outcome |-> "invalid"]

\* displayTrialResults(result) and showSuccess, or the outer catch: the
\* element is created once; its template throws on null and on strings
\* where numbers are expected
FinishTrial(t, base, result, throws) ==
    LET shows == trialResults = << >>
    IN  /\ trials' = [base EXCEPT ![t].pc = "done",
                        ![t].outcome = IF shows /\ throws THEN "error" ELSE "success"]
        /\ trialResults' = IF shows /\ ~throws THEN << result >> ELSE trialResults

\* fault: the free trial checks the e-mail address only
handleFreeTrialEmailOnly(email, text) ==
    /\ uiReady
    /\ LET t == Len(trials) + 1
           started == Append(trials, NewTrial(email, text))
       IN  trials' = IF email = "" THEN started
                     ELSE [started EXCEPT ![t].pc = "fetch", ![t].outcome = "pending"]
    /\ UNCHANGED << pageVars,
                    initVars, uiReady, statusIndicator, probe, isOfflineMode,
                    analyzeVars, trialResults, metricsVars >>

\* fault: a client that is offline skips the remote call of the free trial
handleFreeTrialOfflineSkips(email, text) ==
    /\ uiReady
    /\ LET t == Len(trials) + 1
           started == Append(trials, NewTrial(email, text))
       IN  IF email = "" \/ text = << >>
             THEN trials' = started /\ UNCHANGED trialResults
             ELSE IF isOfflineMode
               THEN FinishTrial(t, started, offlineTrialAnalysis(email, text), FALSE)
               ELSE /\ trials' = [started EXCEPT ![t].pc = "fetch",
                                                 ![t].outcome = "pending"]
                    /\ UNCHANGED trialResults
    /\ UNCHANGED << pageVars,
                    initVars, uiReady, statusIndicator, probe, isOfflineMode,
                    analyzeVars, metricsVars >>

\* handleFreeTrial(event) up to its first await, or to its early return
handleFreeTrial(email, text) ==
    /\ uiReady
    /\ LET t == Len(trials) + 1
           started == Append(trials, NewTrial(email, text))
       IN  trials' = IF email = "" \/ text = << >> THEN started
                     ELSE [started EXCEPT ![t].pc = "fetch", ![t].outcome = "pending"]
    /\ UNCHANGED << pageVars,
                    initVars, uiReady, statusIndicator, probe, isOfflineMode,
                    analyzeVars, trialResults, metricsVars >>

\* the fetch of trial t settles
TrialFetchSettles(t, r) ==
    /\ t \in 1..Len(trials)
    /\ trials[t].pc = "fetch"
    /\ LET base == trials
       IN  IF ResponseOk(r)
             THEN /\ trials' = [base EXCEPT ![t].pc = "json"]
                  /\ UNCHANGED trialResults
             ELSE FinishTrial(t, base,
                              offlineTrialAnalysis("a@b.c", base[t].text), FALSE)
    /\ UNCHANGED << pageVars,
                    initVars, uiReady, statusIndicator, probe, isOfflineMode,
                    analyzeVars, metricsVars >>

\* response.json() of trial t settles
TrialJsonSettles(t, b) ==
    /\ t \in 1..Len(trials)
    /\ trials[t].pc = "json"
    /\ LET base == trials
       IN  IF b = "unparsable"
             THEN FinishTrial(t, base,
                              offlineTrialAnalysis("a@b.c", base[t].text), FALSE)
             ELSE FinishTrial(t, base, ParseTrial(b), b \in { "null", "badtypes" })
    /\ UNCHANGED << pageVars,
                    initVars, uiReady, statusIndicator, probe, isOfflineMode,
                    analyzeVars, metricsVars >>

----------------------------------------------------------------------------
(* The metrics poller (loadSustainabilityMetrics, startRealTimeUpdates).   *)

\* getDefaultMetrics(): 2591.4, 123.4 and 6787.0 in tenths, 0.89 in hundredths
getDefaultMetrics ==
    [total_analyses_performed |-> 1234,
     carbon_offset_generated |-> 25914,
     trees_planted_equivalent |-> 1234,
     renewable_energy_used |-> 67870,
     consciousness_elevation_events |-> 1234,
     planetary_healing_score |-> 89]

\* the snapshots the backend serves, told apart by their analysis counter
SnapshotVersions == { 1, 2 }

RemoteMetrics(v) == [getDefaultMetrics EXCEPT !.total_analyses_performed = v]

\* the JSON value null, and an object whose numbers are strings
JsNull == [jsnull |-> TRUE]
BadTypesMetrics == [carbon_offset_generated_text |-> "2591.4"]

\* const metrics = await response.json() for the bodies that parse
ParseMetrics(b, v) ==
    CASE b = "shaped"   -> RemoteMetrics(v)
      [] b = "empty"    -> EmptyObject
      [] b = "null"     -> JsNull
      [] b = "badtypes" -> BadTypesMetrics

\* displaySustainabilityMetrics(metrics) where it does not throw: nothing
\* without the #sustainability-metrics element
displaySustainabilityMetrics(metrics) ==
    IF uiReady THEN << metrics >> ELSE sustainabilityDisplay

\* init() after `await this.loadSustainabilityMetrics()`, when load i is the
\* load of init: the interval starts, the flags are set, and
\* this.dispatchAPOReadyEvent(), which the class does not define, throws; so
\* does this.handleInitializationError(error) in the catch block, and the
\* promise of init() is rejected.
InitAfterMetrics(i) ==
    IF i = 1
      THEN /\ timerOn' = TRUE
           /\ isInitialized' = TRUE
           /\ isQuantumFieldActive' = TRUE
           /\ initPc' = "rejected"
      ELSE UNCHANGED initVars

\* the catch block of loadSustainabilityMetrics()
loadSustainabilityMetricsCatch ==
    sustainabilityDisplay' = displaySustainabilityMetrics(getDefaultMetrics)

\* an interval tick of startRealTimeUpdates(): loadSustainabilityMetrics()
Tick ==
    /\ timerOn
    /\ loads' = Append(loads, NewLoad)
    /\ UNCHANGED << pageVars,
                    initVars, uiReady, statusIndicator, probe, isOfflineMode,
                    analyzeVars, trialVars, sustainabilityMetrics,
                    sustainabilityDisplay >>

\* fault: a failed metrics fetch takes the client offline
LoadFetchSettlesDegrading(i, r) ==
    /\ i \in 1..Len(loads)
    /\ loads[i].pc = "fetch"
    /\ IF ResponseOk(r)
         THEN /\ loads' = [loads EXCEPT ![i].pc = "json"]
              /\ UNCHANGED << initVars, sustainabilityMetrics, sustainabilityDisplay,
                              isOfflineMode >>
         ELSE /\ loads' = [loads EXCEPT ![i].pc = "done"]
              /\ loadSustainabilityMetricsCatch
              /\ InitAfterMetrics(i)
              /\ isOfflineMode' = TRUE
              /\ UNCHANGED sustainabilityMetrics
    /\ UNCHANGED << pageVars,
                    uiReady, statusIndicator, probe,
                    analyzeVars, trialVars >>

\* the fetch of load i settles
LoadFetchSettles(i, r) ==
    /\ i \in 1..Len(loads)
    /\ loads[i].pc = "fetch"
    /\ IF ResponseOk(r)
         THEN /\ loads' = [loads EXCEPT ![i].pc = "json"]
              /\ UNCHANGED << initVars, sustainabilityMetrics, sustainabilityDisplay >>
         ELSE /\ loads' = [loads EXCEPT ![i].pc = "done"]
              /\ loadSustainabilityMetricsCatch
              /\ InitAfterMetrics(i)
              /\ UNCHANGED sustainabilityMetrics
    /\ UNCHANGED << pageVars,
                    uiReady, statusIndicator, probe, isOfflineMode,
                    analyzeVars, trialVars >>

\* response.json() of load i settles; v is the snapshot a shaped body holds
LoadJsonSettles(i, b, v) ==
    /\ i \in 1..Len(loads)
    /\ loads[i].pc = "json"
    /\ loads' = [loads EXCEPT ![i].pc = "done"]
    /\ IF b = "unparsable"
         THEN /\ loadSustainabilityMetricsCatch
              /\ UNCHANGED sustainabilityMetrics
         ELSE /\ sustainabilityMetrics' = ParseMetrics(b, v)
              /\ IF uiReady /\ b \in { "null", "badtypes" }
                   THEN loadSustainabilityMetricsCatch
                   ELSE sustainabilityDisplay' =
                            displaySustainabilityMetrics(ParseMetrics(b, v))
    /\ InitAfterMetrics(i)
    /\ UNCHANGED << pageVars,
                    uiReady, statusIndicator, probe, isOfflineMode,
                    analyzeVars, trialVars >>

----------------------------------------------------------------------------
(* The live display and the exported instance.                             *)

\* fault: the live display takes the signature modulo 400
updateRealTimeMetricsWide(text) ==
    /\ uiReady
    /\ healingFrequencyDisplay' =
          IF text = << >> THEN healingFrequencyDisplay
          ELSE << [hz |-> 400 + ModU32(calculateQuantumSignature(text), 400),
                   fixed |-> FALSE] >>
    /\ UNCHANGED << initVars, uiReady, statusIndicator, probe, isOfflineMode,
                    analyzeVars, trialVars, metricsVars, apiBaseUrl, scriptVars >>

\* updateRealTimeMetrics(), the textarea's input listener, with `text` in the
\* textarea: `${frequency} Hz` in the #healing-frequency element
updateRealTimeMetrics(text) ==
    /\ uiReady
    /\ healingFrequencyDisplay' =
          IF text = << >> THEN healingFrequencyDisplay
          ELSE << [hz |-> 400 + ModU32(calculateQuantumSignature(text), 200),
                   fixed |-> FALSE] >>
    /\ UNCHANGED << initVars, uiReady, statusIndicator, probe, isOfflineMode,
                    analyzeVars, trialVars, metricsVars, apiBaseUrl, scriptVars >>

\* fault: the engine mixes the connectivity flag into the text it hashes
InvokeEngineByMode(text, intention) ==
    LET hashed == IF isOfflineMode THEN text \o << 109 >> ELSE text
    IN  /\ initPc # "new"
        /\ engine' = << [text |-> text,
                         signature |-> calculateQuantumSignature(hashed),
                         analysis |-> offlineAnalysis(hashed, intention),
                         trial |-> offlineTrialAnalysis("a@b.c", hashed)] >>
        /\ UNCHANGED << initVars, uiReady, statusIndicator, probe, isOfflineMode,
                        analyzeVars, trialVars, metricsVars, apiBaseUrl,
                        healingFrequencyDisplay, location, cli >>

\* fault: offlineAnalysis marks the client offline and records its result
InvokeEngineRecording(text, intention) ==
    /\ initPc # "new"
    /\ engine' = << [text |-> text,
                     signature |-> calculateQuantumSignature(text),
                     analysis |-> offlineAnalysis(text, intention),
                     trial |-> offlineTrialAnalysis("a@b.c", text)] >>
    /\ isOfflineMode' = TRUE
    /\ analysisHistory' = Append(analysisHistory, offlineAnalysis(text, intention))
    /\ UNCHANGED << initVars, uiReady, statusIndicator, probe, calls,
                    analyzeBtnDisabled, trialVars, metricsVars, apiBaseUrl,
                    healingFrequencyDisplay, location, cli >>

\* Another script calls the engine on window.apoQuantumLogos:
\* calculateQuantumSignature(text), offlineAnalysis(text, intention) and
\* offlineTrialAnalysis(email, text).  The methods read
\* this.corporateSignature and write nothing.
InvokeEngine(text, intention) ==
    /\ initPc # "new"
    /\ engine' = << [text |-> text,
                     signature |-> calculateQuantumSignature(text),
                     analysis |-> offlineAnalysis(text, intention),
                     trial |-> offlineTrialAnalysis("a@b.c", text)] >>
    /\ UNCHANGED << initVars, uiReady, statusIndicator, probe, isOfflineMode,
                    analyzeVars, trialVars, metricsVars, apiBaseUrl,
                    healingFrequencyDisplay, location, cli >>

----------------------------------------------------------------------------
(* The interactive session of the Node.js bridge (node.js).                *)

\* the commands that run an analysis, and the mode each passes to analyze()
AnalysisCommands == { "analyze", "math", "astro", "logo" }

AnalysisMode(command) ==
    CASE command = "analyze" -> "full"
      [] command = "math"    -> "math_analysis"
      [] command = "astro"   -> "astronomy"
      [] command = "logo"    -> "logograms"

\* the lines typed at the prompt, as input.trim().split(' ') leaves them: the
\* empty line, every command alone, a word that is no command, and the
\* analysis commands followed by a text
Lines ==
    { << >> }
        \cup { << c >> : c \in AnalysisCommands
                              \cup { "python", "demo", "help", "quit", "exit", "status" } }
        \cup { << c, "hm" >> : c \in AnalysisCommands }

\* how exec() calls back: with an error, with output on stderr, or cleanly
ExecOutcomes == { "error", "stderr", "ok" }

\* askQuestion(): rl.question() issues the prompt
askQuestion(session) == [session EXCEPT !.pc = "prompt", !.prompts = @ + 1]

\* runMode(mode): the interpreter is spawned as a child with inherited stdio
runMode(session, mode) ==
    [session EXCEPT !.output = Append(@, "starting " \o mode),
                    !.children = @ + 1,
                    !.isRunning = TRUE]

\* main() without arguments, the dependencies found: startInteractiveCLI()
\* prints the banner, creates the readline interface and asks
startInteractiveCLI ==
    /\ cli.pc = "off"
    /\ cli' = askQuestion([cli EXCEPT !.output = Append(@, "banner")])
    /\ UNCHANGED << initVars, uiReady, statusIndicator, probe, isOfflineMode,
                    analyzeVars, trialVars, metricsVars, apiBaseUrl,
                    healingFrequencyDisplay, location, engine >>

\* the callback of rl.question() for the line read, up to its end or to the
\* `await this.analyze(text, mode)` of an analysis command
Command(line) ==
    /\ cli.pc = "prompt"
    /\ LET command == IF line = << >> THEN "" ELSE line[1]
           text == IF Len(line) > 1 THEN line[2] ELSE ""
           said(message) == [cli EXCEPT !.output = Append(@, message)]
       IN  cli' =
             CASE command \in AnalysisCommands /\ text # "" ->
                    [said("analyzing") EXCEPT
                        !.pc = "exec",
                        !.running = << [text |-> text, mode |-> AnalysisMode(command)] >>]
               [] command \in AnalysisCommands /\ text = "" ->
                    askQuestion(said("please provide text"))
               [] command = "python" ->
                    [runMode(said("launching python"), "interactive") EXCEPT !.pc = "closed"]
               [] command = "demo" ->
                    askQuestion(runMode(said("running demo"), "demo"))
               [] command = "help" ->
                    askQuestion(said("available commands"))
               [] command \in { "quit", "exit" } ->
                    [said("goodbye") EXCEPT !.pc = "closed"]
               [] OTHER ->
                    askQuestion(IF line # << >> THEN said("unknown command") ELSE cli)
    /\ UNCHANGED << initVars, uiReady, statusIndicator, probe, isOfflineMode,
                    analyzeVars, trialVars, metricsVars, apiBaseUrl,
                    healingFrequencyDisplay, location, engine >>

\* the callback of exec() in analyze(): on an error the promise is rejected,
\* the `await` in the rl.question() callback throws with no try around it, the
\* callback's own promise is rejected with nobody to handle it, and the
\* 'unhandledRejection' listener calls process.exit(1); otherwise the promise
\* resolves, the switch breaks and askQuestion() runs
ExecSettles(outcome) ==
    /\ cli.pc = "exec"
    /\ cli' =
         CASE outcome = "error" ->
                [cli EXCEPT !.pc = "exited",
                            !.running = << >>,
                            !.output = @ \o << "analysis error", "unhandled rejection" >>]
           [] outcome = "stderr" ->
                askQuestion([cli EXCEPT !.running = << >>,
                                        !.output = @ \o << "warning", "analysis complete" >>])
           [] outcome = "ok" ->
                askQuestion([cli EXCEPT !.running = << >>,
                                        !.output = Append(@, "analysis complete")])
    /\ UNCHANGED << initVars, uiReady, statusIndicator, probe, isOfflineMode,
                    analyzeVars, trialVars, metricsVars, apiBaseUrl,
                    healingFrequencyDisplay, location, engine >>

\* the 'close' listener of a child started by runMode()
ChildClose ==
    /\ cli.pc # "exited"
    /\ cli.children > 0
    /\ cli' = [cli EXCEPT !.children = @ - 1,
                          !.isRunning = FALSE,
                          !.output = Append(@, "interpreter exited")]
    /\ UNCHANGED << initVars, uiReady, statusIndicator, probe, isOfflineMode,
                    analyzeVars, trialVars, metricsVars, apiBaseUrl,
                    healingFrequencyDisplay, location, engine >>

----------------------------------------------------------------------------
(* The specifications.  The actions above take their inputs as parameters; *)
(* a specification chooses the sets they are drawn from and bounds the     *)
(* number of invocations.                                                  *)

\* a coarse environment: a fetch is rejected or answered with 200, and a
\* body is of the documented shape or does not parse
CoarseOutcomes == { [rejected |-> TRUE, status |-> 0],
                    [rejected |-> FALSE, status |-> 200] }
CoarseBodies == { "unparsable", "shaped" }
CoarseTexts == { << >>, <<104, 109>> }

\* The whole client in a coarse environment: every interleaving of the
\* probe, analyze calls, free trials and metrics loads.
Next ==
    \/ \E domReady \in BOOLEAN : Construct(domReady)
    \/ DOMContentLoaded
    \/ \E r \in CoarseOutcomes : ProbeFetchFails(r)
    \/ \E r \in CoarseOutcomes : ProbeFetchOk(r)
    \/ \E b \in CoarseBodies : ProbeJsonSettles(b)
    \/ /\ Len(calls) < SessionCalls
       /\ \E text \in CoarseTexts, trigger \in Triggers :
             analyzeConsciousness(text, "healing", trigger)
    \/ \E c \in 1..SessionCalls, r \in CoarseOutcomes : AnalyzeFetchSettles(c, r)
    \/ \E c \in 1..SessionCalls, b \in CoarseBodies : AnalyzeJsonSettles(c, b)
    \/ /\ Len(trials) < MaxTrials
       /\ \E email \in Emails, text \in CoarseTexts : handleFreeTrial(email, text)
    \/ \E t \in 1..MaxTrials, r \in CoarseOutcomes : TrialFetchSettles(t, r)
    \/ \E t \in 1..MaxTrials, b \in CoarseBodies : TrialJsonSettles(t, b)
    \/ Len(loads) < MaxLoads /\ Tick
    \/ \E i \in 1..MaxLoads, r \in CoarseOutcomes : LoadFetchSettles(i, r)
    \/ \E i \in 1..MaxLoads, b \in CoarseBodies : LoadJsonSettles(i, b, 1)

Spec == Init /\ [][Next]_vars

\* The orchestrator in full: every status and body of the analyze calls,
\* after a startup in the coarse environment.
NextAnalyze ==
    \/ \E domReady \in BOOLEAN : Construct(domReady)
    \/ DOMContentLoaded
    \/ \E r \in CoarseOutcomes : ProbeFetchFails(r)
    \/ \E r \in CoarseOutcomes : ProbeFetchOk(r)
    \/ \E b \in CoarseBodies : ProbeJsonSettles(b)
    \/ /\ Len(calls) < MaxCalls
       /\ \E q \in Requests, trigger \in Triggers :
             analyzeConsciousness(q[1], q[2], trigger)
    \/ \E c \in 1..MaxCalls, r \in FetchOutcomes : AnalyzeFetchSettles(c, r)
    \/ \E c \in 1..MaxCalls, b \in Bodies : AnalyzeJsonSettles(c, b)

SpecAnalyze == Init /\ [][NextAnalyze]_vars

\* The probe in full: every status and body of its response, with analyze
\* calls in the coarse environment.
NextProbe ==
    \/ \E domReady \in BOOLEAN : Construct(domReady)
    \/ DOMContentLoaded
    \/ \E r \in FetchOutcomes : ProbeFetchFails(r)
    \/ \E r \in FetchOutcomes : ProbeFetchOk(r)
    \/ \E b \in Bodies : ProbeJsonSettles(b)
    \/ /\ Len(calls) < MaxCalls
       /\ \E text \in CoarseTexts, trigger \in Triggers :
             analyzeConsciousness(text, "healing", trigger)
    \/ \E c \in 1..MaxCalls, r \in CoarseOutcomes : AnalyzeFetchSettles(c, r)
    \/ \E c \in 1..MaxCalls, b \in CoarseBodies : AnalyzeJsonSettles(c, b)
    \/ \E r \in CoarseOutcomes : LoadFetchSettles(1, r)
    \/ \E b \in CoarseBodies : LoadJsonSettles(1, b, 1)

SpecProbe == Init /\ [][NextProbe]_vars

\* The texts the engine is examined on: "", "m", "j", "a", "hm", "hv", "kn",
\* "tm", "zo", "vu", "wi", "ae" and "sea"; they reach the frequencies 400,
\* 450, 451, 500, 501 and 599, with and without vowels.
EngineTexts ==
    { << >>, << 109 >>, << 106 >>, << 97 >>, << 104, 109 >>, << 104, 118 >>,
      << 107, 110 >>, << 116, 109 >>, << 122, 111 >>, << 118, 117 >>,
      << 119, 105 >>, << 97, 101 >>, << 115, 101, 97 >> }

\* the texts typed into the textarea: "", "hm" and "vu"
LiveTexts == { << >>, << 104, 109 >>, << 118, 117 >> }

\* the fetch that fails
Rejection == [rejected |-> TRUE, status |-> 0]

\* The signature engine and what derives from it, on every text above, in a
\* session whose probe and analyze call fail.
NextEngine ==
    \/ \E domReady \in BOOLEAN : Construct(domReady)
    \/ DOMContentLoaded
    \/ ProbeFetchFails(Rejection)
    \/ /\ Len(calls) < SessionCalls
       /\ analyzeConsciousness(<< 104, 109 >>, "healing", "click")
    \/ \E c \in 1..SessionCalls : AnalyzeFetchSettles(c, Rejection)
    \/ \E text \in EngineTexts : InvokeEngine(text, "healing")
    \/ \E text \in LiveTexts : updateRealTimeMetrics(text)

SpecEngine == Init /\ [][NextEngine]_vars

\* The environment resolver on every hostname and protocol, and the startup
\* that follows it.
NextResolver ==
    \/ \E domReady \in BOOLEAN : Construct(domReady)
    \/ DOMContentLoaded
    \/ \E r \in CoarseOutcomes : ProbeFetchFails(r)
    \/ \E r \in CoarseOutcomes : ProbeFetchOk(r)
    \/ \E b \in CoarseBodies : ProbeJsonSettles(b)

SpecResolver == InitAnywhere /\ [][NextResolver]_vars

\* The operations that take a text from the page: analyze calls in the coarse
\* environment, free trials with every status and body of their response, and
\* the live display of the textarea.
NextText ==
    \/ \E domReady \in BOOLEAN : Construct(domReady)
    \/ DOMContentLoaded
    \/ \E r \in CoarseOutcomes : ProbeFetchFails(r)
    \/ \E r \in CoarseOutcomes : ProbeFetchOk(r)
    \/ \E b \in CoarseBodies : ProbeJsonSettles(b)
    \/ /\ Len(calls) < SessionCalls
       /\ \E text \in CoarseTexts, trigger \in Triggers :
             analyzeConsciousness(text, "healing", trigger)
    \/ \E c \in 1..SessionCalls, r \in CoarseOutcomes : AnalyzeFetchSettles(c, r)
    \/ \E c \in 1..SessionCalls, b \in CoarseBodies : AnalyzeJsonSettles(c, b)
    \/ /\ Len(trials) < MaxTrials
       /\ \E email \in Emails, text \in CoarseTexts : handleFreeTrial(email, text)
    \/ \E t \in 1..MaxTrials, r \in FetchOutcomes : TrialFetchSettles(t, r)
    \/ \E t \in 1..MaxTrials, b \in Bodies : TrialJsonSettles(t, b)
    \/ \E text \in CoarseTexts : updateRealTimeMetrics(text)

SpecText == Init /\ [][NextText]_vars

\* The metrics poller with refreshes that can overlap: the load of init and
\* the loads of the interval, every outcome and body of their responses; a
\* shaped body answering load i holds snapshot i.
NextMetrics ==
    \/ \E domReady \in BOOLEAN : Construct(domReady)
    \/ DOMContentLoaded
    \/ \E r \in CoarseOutcomes : ProbeFetchFails(r)
    \/ \E r \in CoarseOutcomes : ProbeFetchOk(r)
    \/ \E b \in CoarseBodies : ProbeJsonSettles(b)
    \/ Len(loads) < MaxLoads + 1 /\ Tick
    \/ \E i \in 1..(MaxLoads + 1), r \in FetchOutcomes : LoadFetchSettles(i, r)
    \/ \E i \in 1..(MaxLoads + 1), b \in Bodies : LoadJsonSettles(i, b, i)

SpecMetrics == Init /\ [][NextMetrics]_vars

\* The interactive session of the Node.js bridge: the lines read at the
\* prompt, the interpreter calls and the children it starts.
NextCli ==
    \/ startInteractiveCLI
    \/ cli.prompts <= MaxCommands /\ \E line \in Lines : Command(line)
    \/ \E outcome \in ExecOutcomes : ExecSettles(outcome)
    \/ ChildClose

\* exec() calls back when the interpreter process has ended, and the event
\* loop then runs the continuation of the command that awaits it.  Nothing
\* makes the user type a line.
FairnessCli == WF_vars(\E outcome \in ExecOutcomes : ExecSettles(outcome))

FairSpecCli == Init /\ [][NextCli]_vars /\ FairnessCli

\* the bodies response.json() resolves with (it rejects on "unparsable")
ParsedBodies == Bodies \ { "unparsable" }

\* The event loop runs the continuation of an async function once the
\* promise it awaits has settled, the browser fires DOMContentLoaded, and the
\* body of a response that has arrived is read to its end: the wait on
\* response.json() ends, by a parsed body unless a rejection ends it first.
\* Nothing makes fetch() settle: the client sets no timeout and aborts no
\* request.
Fairness ==
    /\ WF_vars(DOMContentLoaded)
    /\ WF_vars(\E b \in CoarseBodies : ProbeJsonSettles(b))
    /\ \A c \in 1..MaxCalls :
          WF_vars(\E b \in ParsedBodies : AnalyzeJsonSettles(c, b))

FairSpec == Init /\ [][NextAnalyze]_vars /\ Fairness

----------------------------------------------------------------------------
(* Properties.                                                             *)

CallIds == 1..Len(calls)

\* the POST /healing-analysis requests issued so far
AnalysisFetches == Cardinality({ c \in CallIds : calls[c].remoteIssued })

\* result.analysis_mode, "undefined" where the object has no such field
ModeOf(result) ==
    IF "analysis_mode" \in DOMAIN result THEN result.analysis_mode ELSE "undefined"

\* call c has ended with the result of the local engine for its own request
LocalResult(c) ==
    /\ calls[c].outcome = "result"
    /\ calls[c].result = offlineAnalysis(calls[c].text, calls[c].intention)
    /\ ModeOf(calls[c].result) = "offline"

\* the remote call of c was rejected or answered with a non-success status
RemoteCallFailed(c) ==
    /\ calls[c].remoteIssued
    /\ calls[c].response # NoResponse
    /\ \/ calls[c].response.rejected
       \/ calls[c].response.status \notin 200..299

\* the step is an invocation of analyzeConsciousness()
AnalyzeInvoked == Len(calls') = Len(calls) + 1

\* C1 (fallback correctness): an analyze call with a non-empty text whose
\* remote call failed (transport error or non-success status), or was not
\* attempted, ends without an error shown to the user and with the result
\* of the local engine (analysis_mode 'offline').
C1_FallbackCorrectness ==
    \A c \in CallIds :
        ( /\ calls[c].text # << >>
          /\ calls[c].pc = "done"
          /\ (RemoteCallFailed(c) \/ ~calls[c].remoteIssued) )
        => LocalResult(c)

\* a call whose fetch was rejected, and one answered 404, both ended
C1_Witness ==
    /\ \E c \in CallIds : calls[c].response.rejected /\ calls[c].pc = "done"
    /\ \E c \in CallIds : calls[c].response.status = 404 /\ calls[c].pc = "done"

\* C2 (one-way sticky degrade): once isOfflineMode is set, it is set in
\* every later state: no step of the probe, of an analyze call, of a free
\* trial or of a metrics load clears it.
C2_OneWayDegrade == [][isOfflineMode => isOfflineMode']_vars

\* the flag was set by an analyze call, the probe succeeded afterwards, and
\* a trial and a metrics load have ended since
C2_Witness ==
    /\ isOfflineMode
    /\ probe.pc = "done" /\ probe.body = "shaped"
    /\ \E t \in 1..Len(trials) : trials[t].outcome = "success"
    /\ \E i \in 1..Len(loads) : loads[i].pc = "done"

\* C3 (validation): an analyze call whose text is empty ends at once as
\* invalid input; it issues no request, appends nothing to the history and
\* leaves isOfflineMode as it is.
C3_Validation ==
    [][ (AnalyzeInvoked /\ calls'[Len(calls')].text = << >>)
        => /\ calls'[Len(calls')].outcome = "invalid"
           /\ calls'[Len(calls')].pc = "done"
           /\ AnalysisFetches' = AnalysisFetches
           /\ analysisHistory' = analysisHistory
           /\ isOfflineMode' = isOfflineMode ]_vars

\* an empty text was refused after an earlier call had left a result
C3_Witness ==
    /\ Len(calls) = 2
    /\ calls[2].text = << >> /\ calls[2].outcome = "invalid"
    /\ Len(analysisHistory) = 1

\* C4 (no remote call once offline): while isOfflineMode is set no request
\* to /healing-analysis is issued, and an analyze call with a non-empty
\* text that starts then ends in the same step with the local result.
C4_OfflineNeverCallsRemote ==
    [][ isOfflineMode
        => /\ AnalysisFetches' = AnalysisFetches
           /\ (AnalyzeInvoked /\ calls'[Len(calls')].text # << >>)
              => /\ calls'[Len(calls')].pc = "done"
                 /\ ~calls'[Len(calls')].remoteIssued
                 /\ calls'[Len(calls')].outcome = "result"
                 /\ ModeOf(calls'[Len(calls')].result) = "offline" ]_vars

\* a call failed and set the flag; the next call was served locally
C4_Witness ==
    /\ Len(calls) = 2
    /\ RemoteCallFailed(1)
    /\ ~calls[2].remoteIssued /\ calls[2].outcome = "result"

\* the remote call of c was answered (the fetch was fulfilled)
Answered(c) ==
    /\ calls[c].remoteIssued
    /\ calls[c].response # NoResponse
    /\ ~calls[c].response.rejected

\* call c was treated as a failed remote call: its body was not read, the
\* flag is set and the call ended with the local result
TreatedAsFailure(c) ==
    /\ calls[c].pc = "done"
    /\ calls[c].body = "none"
    /\ isOfflineMode
    /\ LocalResult(c)

\* C5 (any failure degrades): an analyze call whose remote call failed, be
\* it a transport error, a non-success status, a body that does not parse
\* or a body that parses to something other than an analysis, has set
\* isOfflineMode and ended with the local result, not with an error.
C5_AnyFailureDegrades ==
    \A c \in CallIds :
        ( /\ calls[c].pc = "done"
          /\ \/ RemoteCallFailed(c)
             \/ calls[c].body \in { "unparsable", "null", "empty", "badtypes" } )
        => (isOfflineMode /\ LocalResult(c))

\* C6 as stated (any status but 200 is a failure): a remote call answered
\* with a status other than 200 is treated as a failed call.
C6_Non200IsFailure ==
    \A c \in CallIds :
        (Answered(c) /\ calls[c].response.status # 200) => TreatedAsFailure(c)

\* C6 as amended (any status outside 200-299 is a failure): a remote call
\* answered with a status outside 200-299 is treated exactly as a transport
\* error: the body is not used, isOfflineMode is set and the call ends with
\* the local result.
C6_NonSuccessIsFailure ==
    \A c \in CallIds :
        (Answered(c) /\ calls[c].response.status \notin 200..299)
        => TreatedAsFailure(c)

\* a call was answered 404 and ended with the local result
C6_Witness ==
    \E c \in CallIds :
        Answered(c) /\ calls[c].response.status = 404 /\ LocalResult(c)

\* C7 (bounded wait): every analyze call with a non-empty text eventually
\* completes, also when the remote endpoint never responds.  (What a call
\* completes with is the matter of C1, C5 and C6.)
C7_AnalyzeCompletes ==
    \A c \in 1..MaxCalls :
        (Len(calls) >= c /\ calls[c].text # << >>)
        ~> (Len(calls) >= c /\ calls[c].pc = "done")

\* C8 as stated (the probe has ended before the first analyze call): one
\* probe request at most, and no analyze call before the probe has ended.
C8_ProbeEndedBeforeAnalyze ==
    /\ probe.fetches <= 1
    /\ Len(calls) > 0 => probe.pc = "done"

\* C8 as amended (the probe has been issued before the first analyze
\* call): the probe request is issued exactly once, by the constructor, and
\* so before any analyze call; it need not have been answered by then.
C8_ProbeIssuedBeforeAnalyze ==
    /\ probe.fetches <= 1
    /\ initPc # "new" => probe.fetches = 1
    /\ Len(calls) > 0 => probe.fetches = 1

\* an analyze call has issued its request while the probe awaits its answer
C8_Witness ==
    /\ probe.pc = "fetch"
    /\ Len(calls) > 0 /\ calls[1].remoteIssued

\* C9 (the probe never throws): after a probe whose request was rejected
\* or answered with a non-success status, isOfflineMode is set and init()
\* has gone on to the metrics load.
C9_ProbeNeverThrows ==
    ( /\ probe.pc = "done"
      /\ (probe.response.rejected \/ probe.response.status \notin 200..299) )
    => /\ isOfflineMode
       /\ initPc \in { "metrics", "rejected" }
       /\ Len(loads) >= 1

\* the probe was answered 404 and init() awaits the metrics load
C9_Witness ==
    /\ probe.pc = "done" /\ probe.response.status = 404
    /\ isOfflineMode /\ initPc = "metrics" /\ loads[1].pc = "fetch"

\* no analyze call has set the flag
NoCallDegraded ==
    \A c \in CallIds : ~RemoteCallFailed(c) /\ calls[c].body # "unparsable"

\* C10 (a 200 answer means connected): after a probe that was answered
\* with status 200, whatever the body, isOfflineMode is not set, unless an
\* analyze call has set it.
C10_Ok200IsConnected ==
    ( /\ probe.pc = "done"
      /\ ~probe.response.rejected /\ probe.response.status = 200
      /\ NoCallDegraded )
    => ~isOfflineMode


\* the analyze calls that have ended with a result
Resulted == { c \in CallIds : calls[c].pc = "done" /\ calls[c].outcome = "result" }

\* C11 (append-only history): the history is as long as the number of
\* analyze calls that ended with a result, and a step either leaves it as it
\* is or appends, at its end, the result of the call that ends in that step.
C11_HistoryAppendOnly ==
    /\ [](Len(analysisHistory) = Cardinality(Resulted))
    /\ [][ \/ analysisHistory' = analysisHistory
           \/ \E c \in 1..Len(calls') :
                 /\ c > Len(calls) \/ calls[c].outcome # "result"
                 /\ calls'[c].outcome = "result"
                 /\ analysisHistory' = Append(analysisHistory, calls'[c].result) ]_vars

\* a remote result and then a local result, in the order they were produced
C11_Witness ==
    /\ Len(analysisHistory) = 2
    /\ ModeOf(analysisHistory[1]) = "online"
    /\ ModeOf(analysisHistory[2]) = "offline"
    /\ analysisHistory[1] = calls[1].result
    /\ analysisHistory[2] = calls[2].result


\* C12 (shape equivalence): a local result and a remote result of the
\* documented shape have the same fields, at the top and in healing_analysis.
C12_SameFieldSet ==
    \A i, j \in DOMAIN analysisHistory :
        (ModeOf(analysisHistory[i]) = "offline" /\ ModeOf(analysisHistory[j]) = "online")
        => /\ DOMAIN analysisHistory[i] = DOMAIN analysisHistory[j]
           /\ DOMAIN analysisHistory[i].healing_analysis
                = DOMAIN analysisHistory[j].healing_analysis


\* C13 (base case): the signature of the empty text is 2166136261 + 19 =
\* 2166136280 = 33052 * 2^16 + 40408, and its derived metrics are the
\* frequency 480, the consciousness 0.80, the regenerative score 0.64 and
\* the grade A.
C13_EmptyTextBaseCase ==
    (engine # << >> /\ engine[1].text = << >>)
    => /\ engine[1].signature = << 40408, 33052 >>
       /\ engine[1].analysis.healing_analysis.consciousness_frequency = 480
       /\ engine[1].analysis.healing_analysis.healing_resonance = 800
       /\ engine[1].analysis.healing_analysis.regenerative_score = 640
       /\ engine[1].analysis.healing_analysis.healing_grade = "A"


C15_SignatureIsUint32 ==
    engine # << >>
    => /\ engine[1].signature \in (0..(Limb - 1)) \X (0..(Limb - 1))
       /\ engine[1].trial.consciousness_signature = engine[1].signature

\* the engine returned 4046453301 for "sea", a text with two vowels: a value
\* from 2^31 on, which a signed conversion would have made negative
C15_Witness ==
    /\ engine # << >>
    /\ engine[1].text = << 115, 101, 97 >>
    /\ engine[1].signature = << 64053, 61743 >>


\* C16 (range of the frequency): the frequency a local computation derives
\* is an integer from 400 to 599 in the three places that derive it: the
\* result of offlineAnalysis (the engine called directly, and the local
\* result of an analyze call), the result of offlineTrialAnalysis, and the
\* number the input listener writes into the frequency display.
C16_FrequencyRange ==
    /\ engine # << >>
       => /\ engine[1].analysis.healing_analysis.consciousness_frequency \in 400..599
          /\ engine[1].trial.healing_frequency \in 400..599
    /\ \A c \in CallIds :
          ModeOf(calls[c].result) = "offline"
          => calls[c].result.healing_analysis.consciousness_frequency \in 400..599
    /\ healingFrequencyDisplay # << >> => healingFrequencyDisplay[1].hz \in 400..599

\* both ends of the range at once: the input listener has written 599 Hz for
\* "vu", and the engine has derived 400 for "m" in both results
C16_Witness ==
    /\ healingFrequencyDisplay = << [hz |-> 599, fixed |-> FALSE] >>
    /\ engine # << >>
    /\ engine[1].text = << 109 >>
    /\ engine[1].analysis.healing_analysis.consciousness_frequency = 400
    /\ engine[1].trial.healing_frequency = 400


\* the regenerative scores, in thousandths, that local computations have
\* produced: by the engine called directly, in both results, and by the
\* analyze calls that ended with a local result
RegenerativeScores ==
    (IF engine = << >> THEN {}
     ELSE { engine[1].analysis.healing_analysis.regenerative_score,
            engine[1].trial.regenerative_score })
    \cup { calls[c].result.healing_analysis.regenerative_score :
             c \in { k \in CallIds : ModeOf(calls[k].result) = "offline" } }

\* C17 as stated (range of the regenerative score): every locally computed
\* regenerative score lies in [0, 0.79], that is at most 790 thousandths.
C17_RegenerativeAtMost079 ==
    \A score \in RegenerativeScores : score \in 0..790

\* C17 as the code has it: consciousness is a whole number of hundredths from
\* 0 to 0.99, so every locally computed regenerative score is 0.8 of that, a
\* multiple of 0.008 in [0, 0.792].
C17_RegenerativeRange ==
    \A score \in RegenerativeScores : score \in { 8 * k : k \in 0..99 }

\* the engine on "tm", whose signature 2068470799 ends in 99: both results
\* carry 0.792
C17_Witness ==
    /\ engine # << >>
    /\ engine[1].text = << 116, 109 >>
    /\ engine[1].analysis.healing_analysis.regenerative_score = 792
    /\ engine[1].trial.regenerative_score = 792


\* C18 (derived-value consistency): with s the signature the engine returns
\* for a text, the local analysis of that text has frequency 400 + (s mod 200),
\* resonance 1000 times and regenerative score 0.8 times the consciousness
\* (s mod 100) / 100, and 0.1 trees; the trial analysis of the same text has
\* the same consciousness, frequency and regenerative score; and the local
\* result of an analyze call of that text carries the same values.
C18_DerivedValues ==
    engine # << >>
    => LET s == engine[1].signature
           hundredths == ModU32(s, 100)
           local == engine[1].analysis.healing_analysis
           trial == engine[1].trial
       IN  /\ local.consciousness_frequency = 400 + ModU32(s, 200)
           /\ local.healing_resonance = 10 * hundredths
           /\ local.regenerative_score = 8 * hundredths
           /\ local.trees_planted_equivalent = 1
           /\ trial.healing_potential = hundredths
           /\ trial.healing_frequency = local.consciousness_frequency
           /\ trial.regenerative_score = local.regenerative_score
           /\ \A c \in CallIds :
                 (ModeOf(calls[c].result) = "offline" /\ calls[c].text = engine[1].text)
                 => calls[c].result.healing_analysis = local

\* the engine on "hm", signature 3745437983, after an analyze call of "hm"
\* ended with the local result: 583 Hz, resonance 830, score 0.664, in the
\* analysis, the trial and the call's result
C18_Witness ==
    /\ engine # << >>
    /\ engine[1].text = << 104, 109 >>
    /\ engine[1].signature = << 55583, 57150 >>
    /\ engine[1].analysis.healing_analysis.consciousness_frequency = 583
    /\ engine[1].analysis.healing_analysis.healing_resonance = 830
    /\ engine[1].trial.healing_frequency = 583
    /\ engine[1].trial.regenerative_score = 664
    /\ Len(calls) = 1
    /\ ModeOf(calls[1].result) = "offline"
    /\ calls[1].result.healing_analysis.regenerative_score = 664


\* grade is the grade the thresholds 450 and 500 assign to frequency
GradeMatches(frequency, grade) ==
    /\ grade \in { "A+", "A", "B+" }
    /\ (grade = "A+") <=> (frequency > 500)
    /\ (grade = "A") <=> (450 < frequency /\ frequency <= 500)
    /\ (grade = "B+") <=> (frequency <= 450)

\* C19 (grade assignment): over every frequency from 400 to 599 the local
\* grade is A+ exactly above 500, A exactly above 450 and up to 500, and B+
\* exactly up to 450, and nothing else; every local result, of the engine
\* called directly and of an analyze call, carries the grade of its own
\* frequency.
C19_GradeAssignment ==
    /\ \A frequency \in 400..599 : GradeMatches(frequency, HealingGrade(frequency))
    /\ engine # << >>
       => GradeMatches(engine[1].analysis.healing_analysis.consciousness_frequency,
                       engine[1].analysis.healing_analysis.healing_grade)
    /\ \A c \in CallIds :
          ModeOf(calls[c].result) = "offline"
          => GradeMatches(calls[c].result.healing_analysis.consciousness_frequency,
                          calls[c].result.healing_analysis.healing_grade)

\* the engine on "j", whose frequency is the threshold 500 itself: grade A
C19_Witness ==
    /\ engine # << >>
    /\ engine[1].text = << 106 >>
    /\ engine[1].analysis.healing_analysis.consciousness_frequency = 500
    /\ engine[1].analysis.healing_analysis.healing_grade = "A"


\* the URL stored is the one that the first rule the page's hostname matches
\* assigns, in the order production name, name containing a Netlify domain,
\* loopback name, default
FirstMatchDecides ==
    LET hostname == location.hostname
        production == hostname \in { << "www.", "alphapiomega.com" >>, << "alphapiomega.com" >> }
        paas == \E i \in DOMAIN hostname : hostname[i] \in { "netlify.app", "netlify.com" }
        loopback == hostname \in { << "localhost" >>, << "127.0.0.1" >> }
        productionApi(scheme) ==
            [protocol |-> scheme, hostname |-> << "www.", "alphapiomega.com" >>,
             port |-> "", path |-> "/api"]
    IN  /\ production => apiBaseUrl = productionApi(location.protocol)
        /\ (~production /\ paas)
           => apiBaseUrl = [protocol |-> location.protocol, hostname |-> hostname,
                            port |-> "", path |-> "/.netlify/functions"]
        /\ (~production /\ ~paas /\ loopback)
           => apiBaseUrl = [protocol |-> "http:", hostname |-> << "localhost" >>,
                            port |-> "5000", path |-> ""]
        /\ (~production /\ ~paas /\ ~loopback)
           => apiBaseUrl = productionApi("https:")

\* C20 (environment resolver): the URL the constructor stores is decided by
\* the first rule the page's hostname matches, in the order production name,
\* name containing a Netlify domain, loopback name, default: the production
\* API under the page's scheme; the function path under the page's own host
\* and scheme; http://localhost:5000; https://www.alphapiomega.com/api.  A
\* host that contains a Netlify domain gets the function path whatever later
\* rule it would also match, and the URL never changes after the constructor.
C20_FirstMatch ==
    /\ [](initPc # "new" => FirstMatchDecides)
    /\ [][initPc # "new" => apiBaseUrl' = apiBaseUrl]_vars

\* the page at https://localhost.netlify.app, a name that contains a Netlify
\* domain and begins like the loopback name, has resolved to the function
\* path under its own host, and the probe of that URL has ended
C20_Witness ==
    /\ location = [hostname |-> << "localhost", ".", "netlify.app" >>, protocol |-> "https:"]
    /\ apiBaseUrl = [protocol |-> "https:", hostname |-> << "localhost", ".", "netlify.app" >>,
                     port |-> "", path |-> "/.netlify/functions"]
    /\ probe.pc = "done"


\* the page's hostname is no production name, contains no Netlify domain and
\* is no loopback name
MatchesNoRule ==
    /\ location.hostname \notin { << "www.", "alphapiomega.com" >>, << "alphapiomega.com" >> }
    /\ ~\E i \in DOMAIN location.hostname :
           location.hostname[i] \in { "netlify.app", "netlify.com" }
    /\ location.hostname \notin { << "localhost" >>, << "127.0.0.1" >> }

\* C21 as stated (safe default): for a host that matches none of the first
\* three rules, under every scheme, the URL stored is the one the production
\* hostname resolves to under that same scheme.
C21_DefaultIsProductionUnderScheme ==
    (initPc # "new" /\ MatchesNoRule)
    => apiBaseUrl = detectEnvironment(<< "www.", "alphapiomega.com" >>, location.protocol)

\* C21 as the code has it: for a host that matches none of the first three
\* rules the URL stored is https://www.alphapiomega.com/api whatever the
\* scheme of the page, which is what the production hostname resolves to
\* under https.
C21_DefaultIsHttpsProduction ==
    (initPc # "new" /\ MatchesNoRule)
    => /\ apiBaseUrl = [protocol |-> "https:", hostname |-> << "www.", "alphapiomega.com" >>,
                        port |-> "", path |-> "/api"]
       /\ apiBaseUrl = detectEnvironment(<< "www.", "alphapiomega.com" >>, "https:")

\* the page at http://example.org has resolved to the https production API
C21_Witness ==
    /\ location = [hostname |-> << "example.org" >>, protocol |-> "http:"]
    /\ initPc # "new"
    /\ apiBaseUrl = [protocol |-> "https:", hostname |-> << "www.", "alphapiomega.com" >>,
                     port |-> "", path |-> "/api"]


\* C22 (metrics fallback): after a refresh that failed the snapshot held in
\* this.sustainabilityMetrics is the default snapshot, and after a refresh
\* that succeeded it is the snapshot received.  The display tells which
\* refresh ended last: it shows the default snapshot after a failure and the
\* received one after a success.
C22_FailureStoresDefault ==
    /\ sustainabilityDisplay = << getDefaultMetrics >>
       => sustainabilityMetrics = getDefaultMetrics
    /\ \A v \in SnapshotVersions :
          sustainabilityDisplay = << RemoteMetrics(v) >>
          => sustainabilityMetrics = RemoteMetrics(v)


\* C23 (the poller starts on its own): once the instance is constructed the
\* first metrics refresh has been issued, whether or not the connectivity
\* probe has been answered; it does not wait for the probe to complete.
C23_FirstRefreshWithoutProbe ==
    initPc # "new" => Len(loads) >= 1


\* C24 (overlapping calls, unordered history): an analyze call does not wait
\* for the calls issued before it.  A step that ends a call with a result
\* appends that result at the end of the history and leaves every earlier
\* call as it is, still in flight if it was; so the history is in the order
\* the calls end, which need not be the order they were issued in.
C24_HistoryInCompletionOrder ==
    [][ \A c \in 1..Len(calls') :
           ((c > Len(calls) \/ calls[c].pc # "done")
              /\ calls'[c].pc = "done" /\ calls'[c].outcome = "result")
           => /\ analysisHistory' = Append(analysisHistory, calls'[c].result)
              /\ \A e \in 1..(c - 1) : calls'[e] = calls[e] ]_vars

\* two calls whose requests were both issued, the second by Ctrl+Enter while
\* the first was in flight, have ended with different results, and the
\* history holds the result of the second before the result of the first
C24_Witness ==
    /\ Len(calls) = 2
    /\ calls[1].remoteIssued /\ calls[2].remoteIssued
    /\ calls[1].outcome = "result" /\ calls[2].outcome = "result"
    /\ calls[1].result # calls[2].result
    /\ analysisHistory = << calls[2].result, calls[1].result >>


\* The reference computation on a uint32 kept as << low 16 bits, high 16
\* bits >>: XOR the code point, multiply by 16777619 = 256 * 2^16 + 403 and
\* add the bonus, each reduced to the low 32 bits.
ReferenceStep(u, character) ==
    LET x == << BitXor(u[1], character, 16), u[2] >>
        low == x[1] * 403
        m == << low % Limb, ((low \div Limb) + (x[1] * 256) + (x[2] * 403)) % Limb >>
        sum == m[1] + FrequencyBonus(character)
    IN  << sum % Limb, (m[2] + (sum \div Limb)) % Limb >>

\* the reference hash of the characters from `position` on
RECURSIVE ReferenceHash(_, _, _)
ReferenceHash(text, position, u) ==
    IF position > Len(text) THEN u
    ELSE ReferenceHash(text, position + 1, ReferenceStep(u, text[position]))

\* the reference signature of a text without vowels: the modulator is 1 and
\* the salt is added modulo 2^32
ReferenceSignature(text) ==
    LET u == ReferenceHash(text, 1, << 40389, 33052 >>)
        sum == u[1] + corporateSignatureLength
    IN  << sum % Limb, (u[2] + (sum \div Limb)) % Limb >>

\* C25 (reference computation): the signature the engine returns is the one
\* the reference computation yields, which starts from 2166136261 and for
\* each character XORs the code point, multiplies by 16777619 and adds the
\* bonus, reducing to the low 32 bits after every step; checked on the texts
\* without a vowel, where the reference is pure 32-bit integer arithmetic.
C25_MatchesReference ==
    (engine # << >> /\ engine[1].text # << >>
       /\ \A i \in DOMAIN engine[1].text : ~isVowel(engine[1].text[i]))
    => engine[1].signature = ReferenceSignature(engine[1].text)


\* C26 (the engine has no side effects): a call of calculateQuantumSignature,
\* offlineAnalysis or offlineTrialAnalysis changes nothing but what it
\* returns: the connectivity flag, the history and the metrics snapshot stay
\* as they are, and no request is issued, by the probe, an analyze call, a
\* trial or a metrics load.
C26_EngineFrame ==
    [][ engine' # engine
        => UNCHANGED << isOfflineMode, statusIndicator, analysisHistory,
                        sustainabilityMetrics, sustainabilityDisplay,
                        probe, calls, trials, loads >> ]_vars

\* the engine has returned a local result, marked offline, for "hm" while
\* the probe is still unanswered: the flag is not set, the history is empty
\* and the probe's request is the only one issued
C26_Witness ==
    /\ engine # << >>
    /\ engine[1].text = << 104, 109 >>
    /\ engine[1].analysis.analysis_mode = "offline"
    /\ ~isOfflineMode
    /\ analysisHistory = << >>
    /\ probe.pc = "fetch" /\ probe.fetches = 1
    /\ calls = << >> /\ loads = << >>


\* C27 (the poller and the orchestrator do not touch each other): a step in
\* which a metrics refresh goes on or ends, by success or by failure, and a
\* timer tick that issues one, leave the connectivity flag, the status
\* indicator, the analyze calls and the history as they are; and the flag
\* suppresses no refresh: the first one is issued when the probe ends,
\* failed or not, and a tick can issue one whenever the timer runs.
C27_MetricsFrame ==
    /\ [](probe.pc = "done" => Len(loads) >= 1)
    /\ [](timerOn => ENABLED Tick)
    /\ [][ (loads' # loads /\ probe' = probe)
           => UNCHANGED << isOfflineMode, statusIndicator, calls, analysisHistory >> ]_vars

\* the first refresh has failed, the page shows the default snapshot, and the
\* client is still connected: the probe had succeeded and the flag is unset
C27_Witness ==
    /\ Len(loads) >= 1 /\ loads[1].pc = "done"
    /\ sustainabilityDisplay = << getDefaultMetrics >>
    /\ probe.pc = "done" /\ statusIndicator = "connected"
    /\ ~isOfflineMode


\* the startup probe has failed: it was rejected or answered with a
\* non-success status
ProbeHasFailed ==
    /\ probe.pc = "done"
    /\ ~ResponseOk(probe.response)

\* the remote call of c has failed: it was rejected, answered with a
\* non-success status, or answered with a body that is no analysis
RemoteCallHasFailed(c) ==
    /\ calls[c].remoteIssued
    /\ \/ calls[c].response.rejected
       \/ calls[c].response.status \in Statuses /\ ~ResponseOk(calls[c].response)
       \/ calls[c].body \in { "unparsable", "null", "empty", "badtypes" }

\* C28 (the flag is the failure history): in every state isOfflineMode is set
\* if and only if the startup probe has failed or the remote call of some
\* analyze call has failed.
C28_OfflineIffFailure ==
    isOfflineMode <=> (ProbeHasFailed \/ \E c \in CallIds : RemoteCallHasFailed(c))


\* C29 (the status shown agrees with the flag): in every state, if the
\* status indicator reads "connected" then isOfflineMode is not set.
C29_ConnectedMeansNotOffline ==
    statusIndicator = "connected" => ~isOfflineMode


\* C30 (the offline notice belongs to the call): an analyze call shows the
\* notice at its end only if its own result was computed locally; a call
\* whose result is the body the backend answered with never shows it.
C30_NoticeOnlyForLocalResult ==
    \A c \in CallIds :
        calls[c].notice
        => /\ calls[c].body \in { "none", "unparsable" }
           /\ ModeOf(calls[c].result) = "offline"


\* C31 (the button while calls are pending): in every state in which an
\* analyze call is in flight, awaiting its fetch or its body, the Analyze
\* button is disabled.
C31_DisabledWhilePending ==
    (\E c \in CallIds : calls[c].pc \in { "fetch", "json" }) => analyzeBtnDisabled


\* C32 (initialization completes without an error): once the first metrics
\* load, the one init awaits, has ended, whatever the probe and the load
\* returned, both flags are set and the promise of init() is not rejected.
C32_InitNotRejected ==
    (Len(loads) >= 1 /\ loads[1].pc = "done")
        => /\ isInitialized
           /\ isQuantumFieldActive
           /\ initPc # "rejected"


\* C33 (the free trial and connectivity): whatever isOfflineMode is, an
\* invocation with an e-mail address and a text issues its fetch; a trial whose
\* fetch is rejected or answered with a non-ok status, or whose body does not
\* parse, ends in success with the local trial analysis of its text as the
\* result shown (when none is shown yet); and every step that starts, advances
\* or ends a trial leaves isOfflineMode and analysisHistory as they were.
C33_TrialStep ==
    trials' # trials =>
        /\ \A email \in Emails, text \in CoarseTexts :
              (handleFreeTrial(email, text) /\ email # "" /\ text # << >>)
                  => /\ trials'[Len(trials')].pc = "fetch"
                     /\ trials'[Len(trials')].text = text
        /\ \A t \in 1..Len(trials) :
              LET local == offlineTrialAnalysis("a@b.c", trials[t].text)
                  fallsBack ==
                      /\ trials'[t].pc = "done"
                      /\ trials'[t].outcome = "success"
                      /\ trialResults = << >> => trialResults' = << local >>
              IN  /\ \A r \in FetchOutcomes :
                        (TrialFetchSettles(t, r) /\ (r.rejected \/ r.status \notin 200..299))
                            => fallsBack
                  /\ (TrialJsonSettles(t, "unparsable")) => fallsBack
        /\ isOfflineMode' = isOfflineMode
        /\ analysisHistory' = analysisHistory

GuardAnalysis(intention) == offlineAnalysis(<< >>, intention)
GuardTrial == offlineTrialAnalysis("a@b.c", << >>)

\* an analyze call or a free trial with an empty text ends in the validation
\* error, with no request and no result; and no result of a call, no history
\* entry and no trial result shown is the engine's answer for the empty text
EmptyTextStopped ==
    /\ \A c \in CallIds :
          /\ calls[c].text = << >>
                => /\ calls[c].pc = "done"
                   /\ calls[c].outcome = "invalid"
                   /\ ~calls[c].remoteIssued
                   /\ calls[c].result = NoResult
          /\ calls[c].result # GuardAnalysis(calls[c].intention)
    /\ \A h \in 1..Len(analysisHistory), intention \in Intentions :
          analysisHistory[h] # GuardAnalysis(intention)
    /\ \A t \in 1..Len(trials) :
          trials[t].text = << >>
              => trials[t].pc = "done" /\ trials[t].outcome = "invalid"
    /\ \A k \in 1..Len(trialResults) : trialResults[k] # GuardTrial

\* C34 (the empty-text guard precedes the engine): calls and trials with an
\* empty text stop at the validation error, the engine's answer for the empty
\* text is in no result, history entry or trial result, and the input
\* listener only ever writes the frequency of a non-empty text to the display.
C34_EngineNeverSeesEmptyText ==
    /\ [] EmptyTextStopped
    /\ [][(uiReady /\ calls' = calls
             /\ healingFrequencyDisplay' # healingFrequencyDisplay)
            => \E text \in CoarseTexts \ { << >> } :
                  healingFrequencyDisplay' =
                      << [hz |-> 400 + ModU32(calculateQuantumSignature(text), 200),
                          fixed |-> FALSE] >>]_vars

\* C34 witness: an analyze call and a free trial (with an e-mail address) were
\* made on an empty textarea and both stopped at the validation error, while
\* the display shows the frequency of the text typed before.
C34_Witness ==
    /\ Len(calls) >= 1 /\ calls[1].text = << >> /\ calls[1].outcome = "invalid"
    /\ Len(trials) >= 1 /\ trials[1].text = << >> /\ trials[1].outcome = "invalid"
    /\ healingFrequencyDisplay # << >>
    /\ analysisHistory = << >>
    /\ trialResults = << >>


\* C35 (overlapping refreshes): when the snapshot of the refresh started last
\* is stored and displayed, the completion of a refresh started before it,
\* the last one still in flight, leaves that snapshot stored and displayed:
\* the order in which the responses arrive does not matter.
C35_LatestStartedWins ==
    [][\A i \in 1..Len(loads) :
          (/\ i < Len(loads)
           /\ loads[i].pc # "done"
           /\ \A k \in 1..Len(loads) : loads'[k].pc = "done"
           /\ Len(loads') = Len(loads)
           /\ sustainabilityMetrics = RemoteMetrics(Len(loads))
           /\ sustainabilityDisplay = << RemoteMetrics(Len(loads)) >>)
              => /\ sustainabilityMetrics' = sustainabilityMetrics
                 /\ sustainabilityDisplay' = sustainabilityDisplay]_vars


====
